---- MODULE Spec2Model ----
(***************************************************************************)
(* Model of fmoe/transformer.py: the two expert compute units              *)
(* (_LinearExpert, _ConvExpert) and the wrapper FMoETransformerMLP.        *)
(*                                                                         *)
(* Tensors are modelled by their contents.  A 2-D tensor is a sequence of  *)
(* rows, a 3-D tensor a sequence of 2-D tensors, and the wrapper's input   *)
(* is a record [shape, data] with data in row-major order.  Scalars are    *)
(* symbolic: <<"tok", k, f>> is feature f of token k, and every projection *)
(* or activation wraps the value(s) it was computed from, so the content   *)
(* of a cell tells which token went through which expert.                  *)
(***************************************************************************)
EXTENDS Integers, Sequences, FiniteSets, TLC

\* ---------------------------------------------------------------- bounds
NumExpert == 2      \* num_expert of the module under study
DModel == 2         \* d_model
DHidden == 2        \* d_hidden
MaxTokens == 4      \* largest number N of tokens of one call
MaxCount == 3       \* largest entry of a count vector
MaxRank == 2        \* largest number of leading dimensions of a wrapper input
MaxDim == 2         \* largest size of one leading dimension

VARIABLES
    experts,            \* self.experts: "none" before construction, "unset" when never assigned
    comm,               \* tag recorded by mark_parallel_comm
    pc,                 \* position of the running call
    caller,             \* "compute" (direct call of experts.forward) or "forward" (the wrapper)
    tokens,             \* the argument inp of the compute unit, N rows of d_model cells
    ids,                \* ids[j]: identity of the token in row j of tokens
    assign,             \* assign[k]: expert of token k (<<>> when the counts describe none)
    fwd_expert_count,   \* the argument fwd_expert_count
    inp,                \* the local inp of _ConvExpert.forward (rebound twice by the code)
    i,                  \* loop variable of the running loop
    idx,                \* the running offset
    outputs,            \* the list of per-expert results
    iters,              \* history: one record per loop iteration of the running call
    result,             \* what the compute unit returned or raised
    prev,               \* history: the call a redistributed call started from
    original_shape,     \* the wrapper's saved shape
    winp,               \* the wrapper's input tensor
    aux,                \* what the caller passed as auxiliary gating features
    wout                \* what the wrapper returned or raised

vars == <<experts, comm, pc, caller, tokens, ids, assign, fwd_expert_count, inp, i, idx,
          outputs, iters, result, prev, original_shape, winp, aux, wout>>

\* ------------------------------------------------------ integer helpers
Min(a, b) == IF a < b THEN a ELSE b

RECURSIVE Sum(_)
Sum(s) == IF s = <<>> THEN 0 ELSE s[1] + Sum(Tail(s))

RECURSIVE Prod(_)
Prod(s) == IF s = <<>> THEN 1 ELSE s[1] * Prod(Tail(s))

\* sum of the first n entries of s
PrefixSum(s, n) == Sum(SubSeq(s, 1, Min(n, Len(s))))

RECURSIVE Flatten(_)
Flatten(ss) == IF ss = <<>> THEN <<>> ELSE ss[1] \o Flatten(Tail(ss))

\* ------------------------------------------------------ tensor helpers
\* m.transpose(1, 0) of a 2-D tensor with cols columns
Transpose(m, cols) == [c \in 1..cols |-> [r \in 1..Len(m) |-> m[r][c]]]

\* s[lo:hi] of Python: both ends are clamped to the length
PySlice(s, lo, hi) == SubSeq(s, Min(lo, Len(s)) + 1, Min(hi, Len(s)))

\* m[:, lo:hi]
SliceCols(m, lo, hi) == [r \in 1..Len(m) |-> PySlice(m[r], lo, hi)]

\* t[:, :, lo:hi]
SliceCols3(t, lo, hi) == [b \in 1..Len(t) |-> SliceCols(t[b], lo, hi)]

\* m.view(1, rows, -1): the cells in row-major order, cut into rows
ViewBatch(m, rows) ==
    LET flat == Flatten(m)
        w == Len(flat) \div rows
    IN  << [r \in 1..rows |-> SubSeq(flat, (r - 1) * w + 1, r * w)] >>

\* t.view(rows, -1) of a 3-D tensor
ViewRows(t, rows) ==
    LET flat == Flatten(Flatten(t))
        w == Len(flat) \div rows
    IN  [r \in 1..rows |-> SubSeq(flat, (r - 1) * w + 1, r * w)]

\* torch.cat(outs, dim=2) of a non-empty list of 3-D tensors
Cat(outs) ==
    [b \in 1..Len(outs[1]) |->
        [r \in 1..Len(outs[1][b]) |-> Flatten([k \in 1..Len(outs) |-> outs[k][b][r]])]]

\* width of the last dimension of a 3-D tensor with at least one row
Width(t) == Len(t[1][1])

\* ------------------------------------------------------ the sub-modules
Token(k) == [f \in 1..DModel |-> <<"tok", k, f>>]

Column(m, p) == [f \in 1..Len(m) |-> m[f][p]]

\* experts[e] of an FMoEConv applied to a (1, d_in, c) tensor: position p of the
\* result is computed from position p of the input (kernel size 1, the default);
\* a tensor with no position is refused (a sub-module must not be given one)
ConvModule(stage, e, t, dout) ==
    IF Len(t[1][1]) = 0
    THEN [status |-> "RuntimeError", value |-> <<>>]
    ELSE [status |-> "ok",
          value |-> [b \in 1..Len(t) |->
                       [h \in 1..dout |->
                          [p \in 1..Len(t[b][1]) |-> <<stage, e, h, Column(t[b], p)>>]]]]

\* self.activation, elementwise, on a 3-D tensor
Activation(t) == [b \in 1..Len(t) |-> [r \in 1..Len(t[b]) |-> [p \in 1..Len(t[b][r]) |-> <<"act", t[b][r][p]>>]]]

\* self.activation on a 2-D tensor
Activation2(m) == [r \in 1..Len(m) |-> [p \in 1..Len(m[r]) |-> <<"act", m[r][p]>>]]

\* the expert that owns grouped position j (1-based) under counts cnt, 0-based
ExpertOf(cnt, j) ==
    CHOOSE e \in 0..(Len(cnt) - 1) : PrefixSum(cnt, e) < j /\ j <= PrefixSum(cnt, e + 1)

\* an FMoELinear applied to grouped rows: row j goes through the weights of the
\* expert that owns position j; counts that do not describe the rows are refused
FusedLinear(stage, m, cnt, dout) ==
    IF Len(cnt) # NumExpert \/ Sum(cnt) # Len(m)
    THEN [status |-> "SizeMismatch", value |-> <<>>]
    ELSE [status |-> "ok",
          value |-> [j \in 1..Len(m) |-> [h \in 1..dout |-> <<stage, ExpertOf(cnt, j), h, m[j]>>]]]

\* _LinearExpert.forward
LinearForward(m, cnt) ==
    LET a == FusedLinear("htoh4", m, cnt, DHidden)
    IN  IF a.status # "ok" THEN a
        ELSE FusedLinear("h4toh", Activation2(a.value), cnt, DModel)

\* what expert e computes for one token row: expand, activate, contract
ExpertMLP(e, row) ==
    [f \in 1..DModel |->
        <<"h4toh", e, f, [h \in 1..DHidden |-> <<"act", <<"htoh4", e, h, row>>>>]>>]

\* ------------------------------------------------------ inputs
CountVectors ==
    UNION {[1..n -> 0..MaxCount] : n \in (NumExpert - 1)..(NumExpert + 1)}

Selectors == {"_LinearExpert", "_ConvExpert", "other"}

NoPrev == [set |-> FALSE]
NoResult == [status |-> "none", value |-> <<>>]
NoTensor == [shape |-> <<>>, data |-> <<>>]

ValidCounts(cnt, n) == Len(cnt) = NumExpert /\ Sum(cnt) = n

\* ------------------------------------------------------ construction
Init ==
    /\ experts = "none"
    /\ comm = "none"
    /\ pc = "new"
    /\ caller = "none"
    /\ tokens = <<>>
    /\ ids = <<>>
    /\ assign = <<>>
    /\ fwd_expert_count = <<>>
    /\ inp = <<>>
    /\ i = 0
    /\ idx = 0
    /\ outputs = <<>>
    /\ iters = <<>>
    /\ result = NoResult
    /\ prev = NoPrev
    /\ original_shape = <<>>
    /\ winp = NoTensor
    /\ aux = "absent"
    /\ wout = NoResult

\* the if / elif of FMoETransformerMLP.__init__: no branch for any other selector
SelectExperts(expert) ==
    IF expert = "_LinearExpert" THEN "_LinearExpert"
    ELSE IF expert = "_ConvExpert" THEN "_ConvExpert"
    ELSE "unset"

\* FMoETransformerMLP.__init__
Construct ==
    /\ pc = "new"
    /\ \E expert \in Selectors, expert_dp_comm \in {"none", "dp"} :
        /\ experts' = SelectExperts(expert)
        /\ comm' = expert_dp_comm
    /\ pc' = "idle"
    /\ UNCHANGED <<caller, tokens, ids, assign, fwd_expert_count, inp, i, idx, outputs,
                   iters, result, prev, original_shape, winp, aux, wout>>

\* ------------------------------------------------------ the compute unit
Ready == pc = "idle" /\ experts \in {"_LinearExpert", "_ConvExpert"}

\* entry of experts.forward(inp, fwd_expert_count): _LinearExpert runs as one
\* step, _ConvExpert executes lines 53-55 and enters its first loop
Enter(who, rows, rowIds, asg, cnt, before) ==
    /\ caller' = who
    /\ tokens' = rows
    /\ ids' = rowIds
    /\ assign' = asg
    /\ fwd_expert_count' = cnt
    /\ prev' = before
    /\ iters' = <<>>
    /\ result' = NoResult
    /\ outputs' = <<>>
    /\ i' = 0
    /\ idx' = 0
    /\ IF experts = "_LinearExpert"
       THEN inp' = rows /\ pc' = "linear"
       ELSE inp' = Transpose(rows, DModel) /\ pc' = "expand"

\* a direct call with N tokens, already grouped, and any count vector
ComputeCall ==
    /\ Ready
    /\ \E n \in 0..MaxTokens, cnt \in CountVectors :
        Enter("compute", [k \in 1..n |-> Token(k)], [k \in 1..n |-> k],
              IF ValidCounts(cnt, n) THEN [k \in 1..n |-> ExpertOf(cnt, k)] ELSE <<>>,
              cnt, NoPrev)
    /\ UNCHANGED <<experts, comm, original_shape, winp, aux, wout>>

Raise(err) ==
    /\ result' = [status |-> err, value |-> <<>>]
    /\ pc' = "done"

LinearStep ==
    /\ pc = "linear"
    /\ result' = LinearForward(inp, fwd_expert_count)
    /\ pc' = "done"
    /\ UNCHANGED <<experts, comm, caller, tokens, ids, assign, fwd_expert_count, inp, i, idx,
                   outputs, iters, prev, original_shape, winp, aux, wout>>

AdvanceStuck(offset, c) == offset

\* idx += fwd_expert_count[i]
Advance(offset, c) == offset + c

IterRecord(stage, c, after, invoked, len) ==
    [stage |-> stage, expert |-> i, count |-> c, before |-> idx, after |-> after,
     invoked |-> invoked, len |-> len]

\* one iteration of the first loop (lines 56-61)
ExpandStep ==
    /\ pc = "expand"
    /\ i < NumExpert
    /\ IF i >= Len(fwd_expert_count)
       THEN /\ Raise("IndexError")
            /\ UNCHANGED <<i, idx, outputs, iters>>
       ELSE LET c == fwd_expert_count[i + 1] IN
            IF c > 0
            THEN LET inp_slice == ViewBatch(SliceCols(inp, idx, idx + c), DModel)
                     out == ConvModule("htoh4", i, inp_slice, DHidden)
                 IN  /\ iters' = Append(iters, IterRecord("htoh4", c, Advance(idx, c), TRUE,
                                                          Width(inp_slice)))
                     /\ IF out.status # "ok"
                        THEN /\ Raise(out.status)
                             /\ UNCHANGED <<i, idx, outputs>>
                        ELSE /\ outputs' = Append(outputs, out.value)
                             /\ idx' = Advance(idx, c)
                             /\ i' = i + 1
                             /\ UNCHANGED <<pc, result>>
            ELSE /\ iters' = Append(iters, IterRecord("htoh4", c, idx, FALSE, 0))
                 /\ i' = i + 1
                 /\ UNCHANGED <<pc, result, idx, outputs>>
    /\ UNCHANGED <<experts, comm, caller, tokens, ids, assign, fwd_expert_count, inp, prev,
                   original_shape, winp, aux, wout>>

\* lines 62-67: concatenate, activate, reset for the second loop
ExpandCat ==
    /\ pc = "expand"
    /\ i = NumExpert
    /\ IF outputs = <<>>
       THEN /\ Raise("RuntimeError")
            /\ UNCHANGED <<inp, i, idx, outputs>>
       ELSE /\ inp' = Activation(Cat(outputs))
            /\ outputs' = <<>>
            /\ idx' = 0
            /\ i' = 0
            /\ pc' = "contract"
            /\ UNCHANGED result
    /\ UNCHANGED <<experts, comm, caller, tokens, ids, assign, fwd_expert_count, iters, prev,
                   original_shape, winp, aux, wout>>

\* one iteration of the second loop (lines 68-72)
ContractStep ==
    /\ pc = "contract"
    /\ i < NumExpert
    /\ IF i >= Len(fwd_expert_count)
       THEN /\ Raise("IndexError")
            /\ UNCHANGED <<i, idx, outputs, iters>>
       ELSE LET c == fwd_expert_count[i + 1] IN
            IF c > 0
            THEN LET inp_slice == SliceCols3(inp, idx, idx + c)
                     out == ConvModule("h4toh", i, inp_slice, DModel)
                 IN  /\ iters' = Append(iters, IterRecord("h4toh", c, Advance(idx, c), TRUE,
                                                          Width(inp_slice)))
                     /\ IF out.status # "ok"
                        THEN /\ Raise(out.status)
                             /\ UNCHANGED <<i, idx, outputs>>
                        ELSE /\ outputs' = Append(outputs, out.value)
                             /\ idx' = Advance(idx, c)
                             /\ i' = i + 1
                             /\ UNCHANGED <<pc, result>>
            ELSE /\ iters' = Append(iters, IterRecord("h4toh", c, idx, FALSE, 0))
                 /\ i' = i + 1
                 /\ UNCHANGED <<pc, result, idx, outputs>>
    /\ UNCHANGED <<experts, comm, caller, tokens, ids, assign, fwd_expert_count, inp, prev,
                   original_shape, winp, aux, wout>>

\* x.view(d_model, -1).transpose(1, 0) of the concatenated result
RowsOf(x) ==
    LET m == ViewRows(x, DModel)
    IN  Transpose(m, Len(m[1]))

\* lines 73-77: concatenate, reshape to one row per token, return
ContractCat ==
    /\ pc = "contract"
    /\ i = NumExpert
    /\ IF outputs = <<>>
       THEN Raise("RuntimeError")
       ELSE /\ result' = [status |-> "ok", value |-> RowsOf(Cat(outputs))]
            /\ pc' = "done"
    /\ UNCHANGED <<experts, comm, caller, tokens, ids, assign, fwd_expert_count, inp, i, idx,
                   outputs, iters, prev, original_shape, winp, aux, wout>>

\* ------------------------------------------------------ redistribution
RECURSIVE SortedSeq(_)
SortedSeq(S) ==
    IF S = {} THEN <<>>
    ELSE LET m == CHOOSE a \in S : \A b \in S : a <= b
         IN  <<m>> \o SortedSeq(S \ {m})

\* dispatch: the tokens grouped contiguously by ascending expert index
GroupedIds(asg) ==
    Flatten([e \in 1..NumExpert |-> SortedSeq({k \in DOMAIN asg : asg[k] = e - 1})])

\* the count vector of an assignment
CountsOf(asg) ==
    [e \in 1..NumExpert |-> Cardinality({k \in DOMAIN asg : asg[k] = e - 1})]

\* a second call of the compute unit on the tokens of a finished valid call,
\* with one expert's tokens moved to other experts
Redistribute ==
    /\ pc = "done"
    /\ caller = "compute"
    /\ ValidCounts(fwd_expert_count, Len(tokens))
    /\ \E e \in 0..(NumExpert - 1), asg \in [DOMAIN assign -> 0..(NumExpert - 1)] :
        /\ \A k \in DOMAIN assign :
              IF assign[k] = e THEN asg[k] # e ELSE asg[k] = assign[k]
        /\ Enter("compute", [j \in 1..Len(tokens) |-> Token(GroupedIds(asg)[j])],
                 GroupedIds(asg), asg, CountsOf(asg),
                 [set |-> TRUE, emptied |-> e, assign |-> assign, ids |-> ids,
                  result |-> result])
    /\ UNCHANGED <<experts, comm, original_shape, winp, aux, wout>>

\* ------------------------------------------------------ the wrapper
LeadingShapes ==
    {lead \in UNION {[1..r -> 0..MaxDim] : r \in 0..MaxRank} : Prod(lead) <= MaxTokens}

\* t.reshape(-1, cols) of a contiguous tensor
Reshape2D(t, cols) ==
    [r \in 1..(Len(t.data) \div cols) |-> SubSeq(t.data, (r - 1) * cols + 1, r * cols)]

\* m.reshape(shape): refused when the number of cells differs
ReshapeTo(m, shape) ==
    IF Len(Flatten(m)) # Prod(shape)
    THEN [status |-> "RuntimeError", value |-> NoTensor]
    ELSE [status |-> "ok", value |-> [shape |-> shape, data |-> Flatten(m)]]

RestoreFlatShape(saved, flat) == flat

\* the shape handed to the final reshape (line 130, used at line 133)
RestoreShape(saved, flat) == saved

\* the index of value v in sequence s
IndexOf(s, v) == CHOOSE j \in 1..Len(s) : s[j] = v

\* combine: the computed rows put back in the order of the flattened batch
Combine(rows, rowIds) == [k \in 1..Len(rowIds) |-> rows[IndexOf(rowIds, k)]]

\* FMoETransformerMLP.forward up to the call of the compute unit: the signature
\* (self, inp) takes no further argument; the shape is saved, the input flattened,
\* and the routing layer gates and dispatches the flattened batch
ForwardCall ==
    /\ Ready
    /\ \E lead \in LeadingShapes, a \in {"absent", "main", "other"} :
        LET t == [shape |-> lead \o <<DModel>>,
                  data |-> Flatten([k \in 1..Prod(lead) |-> Token(k)])]
            flat == Reshape2D(t, DModel)
        IN  /\ winp' = t
            /\ aux' = a
            /\ IF a # "absent"
               THEN /\ wout' = [status |-> "TypeError", value |-> NoTensor]
                    /\ pc' = "returned"
                    /\ caller' = "forward"
                    /\ UNCHANGED <<tokens, ids, assign, fwd_expert_count, inp, i, idx,
                                   outputs, iters, result, prev, original_shape>>
               ELSE /\ original_shape' = t.shape
                    /\ wout' = NoResult
                    /\ \E asg \in [1..Len(flat) -> 0..(NumExpert - 1)] :
                          Enter("forward", [j \in 1..Len(flat) |-> flat[GroupedIds(asg)[j]]],
                                GroupedIds(asg), asg, CountsOf(asg), NoPrev)
    /\ UNCHANGED <<experts, comm>>

\* the rest of FMoETransformerMLP.forward: the routing layer combines the rows
\* and the wrapper reshapes them to the saved shape
ForwardReturn ==
    /\ pc = "done"
    /\ caller = "forward"
    /\ wout' = IF result.status # "ok"
               THEN [status |-> result.status, value |-> NoTensor]
               ELSE IF Len(result.value) # Len(ids)
               THEN [status |-> "SizeMismatch", value |-> NoTensor]
               ELSE ReshapeTo(Combine(result.value, ids),
                              RestoreShape(original_shape, <<Len(ids), DModel>>))
    /\ pc' = "returned"
    /\ UNCHANGED <<experts, comm, caller, tokens, ids, assign, fwd_expert_count, inp, i, idx,
                   outputs, iters, result, prev, original_shape, winp, aux>>

\* the caller takes the result; nothing but the parameters outlives a call
Finish ==
    /\ \/ pc = "done" /\ caller = "compute"
       \/ pc = "returned"
    /\ pc' = "idle"
    /\ caller' = "none"
    /\ tokens' = <<>>
    /\ ids' = <<>>
    /\ assign' = <<>>
    /\ fwd_expert_count' = <<>>
    /\ inp' = <<>>
    /\ i' = 0
    /\ idx' = 0
    /\ outputs' = <<>>
    /\ iters' = <<>>
    /\ result' = NoResult
    /\ prev' = NoPrev
    /\ original_shape' = <<>>
    /\ winp' = NoTensor
    /\ aux' = "absent"
    /\ wout' = NoResult
    /\ UNCHANGED <<experts, comm>>

\* ------------------------------------------------------ properties
Valid == ValidCounts(fwd_expert_count, Len(tokens))

N == Len(tokens)

\* the row the compute unit owes grouped position j
Expected(j) == ExpertMLP(ExpertOf(fwd_expert_count, j), tokens[j])

\* the row computed for token k in a finished call
RowOfToken(res, rowIds, k) == res.value[IndexOf(rowIds, k)]

Invoked(stage) == {n \in 1..Len(iters) : iters[n].stage = stage /\ iters[n].invoked}

\* the positions (0-based) of the slice taken in iteration n
Positions(n) == iters[n].before..(iters[n].before + iters[n].len - 1)

\* the loop of a stage has run all its iterations
LoopOver(stage) == Cardinality({n \in 1..Len(iters) : iters[n].stage = stage}) = NumExpert

RECURSIVE Offset(_, _)
\* row-major offset of multi-index mi (0-based) in leading shape lead
Offset(lead, mi) ==
    IF lead = <<>> THEN 0
    ELSE mi[1] * Prod(Tail(lead)) + Offset(Tail(lead), Tail(mi))

Leading(t) == SubSeq(t.shape, 1, Len(t.shape) - 1)

MultiIndices(lead) ==
    {mi \in [1..Len(lead) -> 0..MaxDim] : \A d \in 1..Len(lead) : mi[d] < lead[d]}

\* the d_model cells of tensor t at leading position mi
TokenAt(t, mi) ==
    SubSeq(t.data, Offset(Leading(t), mi) * DModel + 1, (Offset(Leading(t), mi) + 1) * DModel)

\* C1: a call with counts of length num_expert that sum to N returns N rows, and
\* row j is what the expert owning position j computes from token j.
C1_RowsInOrder ==
    (pc = "done" /\ Valid) =>
        /\ result.status = "ok"
        /\ Len(result.value) = N
        /\ \A j \in 1..N : result.value[j] = Expected(j)

\* C1, C4, C5 on batches that are not empty: the rows are returned in order.
NonEmptyRowsInOrder ==
    (pc = "done" /\ Valid /\ N > 0) =>
        /\ result.status = "ok"
        /\ Len(result.value) = N
        /\ \A j \in 1..N : result.value[j] = Expected(j)

\* C2: a call whose counts do not sum to N ends in an error and returns nothing.
C2_MismatchRaises ==
    (pc = "done" /\ Sum(fwd_expert_count) # N) => result.status # "ok"

\* C2, the case of the scenario: counts that sum to N-1.
C2_OneShortRaises ==
    (pc = "done" /\ Sum(fwd_expert_count) = N - 1) => result.status # "ok"

\* C3: in the loops of the convolution variant an expert with count 0 is never
\* sliced or invoked and leaves idx alone, and no expert is invoked on a slice of
\* length 0.
C3_ZeroCountSkipped ==
    \A n \in 1..Len(iters) :
        /\ iters[n].count = 0 => ~iters[n].invoked /\ iters[n].after = iters[n].before
        /\ iters[n].invoked => iters[n].len > 0

\* C3, the part about the experts whose count is 0.
ZeroCountNeverInvoked ==
    \A n \in 1..Len(iters) :
        iters[n].count = 0 => ~iters[n].invoked /\ iters[n].after = iters[n].before

\* C4: a valid call in which some counts are 0 (or all, with N = 0) completes
\* without an error and returns N rows, none of them from a zero-count expert.
C4_ZeroCountNoError ==
    (pc = "done" /\ Valid /\ \E e \in 1..NumExpert : fwd_expert_count[e] = 0) =>
        /\ result.status = "ok"
        /\ Len(result.value) = N
        /\ \A n \in 1..Len(iters) : iters[n].count = 0 => ~iters[n].invoked

\* C5: after one expert's tokens are moved to other experts (N fixed), the call
\* raises nothing and the row of every token that kept its expert is unchanged.
C5_ZeroCountInvariance ==
    (pc = "done" /\ prev.set) =>
        /\ result.status = "ok"
        /\ \A k \in DOMAIN assign :
              assign[k] = prev.assign[k] =>
                  RowOfToken(result, ids, k) = RowOfToken(prev.result, prev.ids, k)

\* C5 on batches that are not empty.
NonEmptyZeroCountInvariance ==
    (pc = "done" /\ prev.set /\ N > 0) =>
        /\ result.status = "ok"
        /\ \A k \in DOMAIN assign :
              assign[k] = prev.assign[k] =>
                  RowOfToken(result, ids, k) = RowOfToken(prev.result, prev.ids, k)

\* C6: a constructed module always has an expert compute unit: a selector that
\* is neither variant makes construction fail.
C6_UnsupportedSelectorFails ==
    pc # "new" => experts \in {"_LinearExpert", "_ConvExpert"}

\* C7: a call whose count vector is not of length num_expert ends in an error.
C7_LengthMismatchRaises ==
    (pc = "done" /\ Len(fwd_expert_count) # NumExpert) => result.status # "ok"

\* C7, the shorter vectors alone.
ShortCountsRaise ==
    (pc = "done" /\ Len(fwd_expert_count) < NumExpert) => result.status # "ok"

C9_AuxiliaryAccepted ==
    (pc = "returned" /\ aux # "absent") => wout.status = "ok"

\* C10: in the convolution variant with counts that sum to N, idx at the start of
\* iteration i is the sum of the counts before i; the slices are disjoint,
\* ascending in expert index and cover 0..N-1; and position j goes through the
\* contraction of the same expert as its expansion, the owner of position j.
C10_SlicesPartition ==
    (experts = "_ConvExpert" /\ Valid) =>
        /\ pc \in {"expand", "contract"} => idx = PrefixSum(fwd_expert_count, i)
        /\ \A stage \in {"htoh4", "h4toh"} :
              /\ \A m, n \in Invoked(stage) :
                    m < n => /\ iters[m].expert < iters[n].expert
                             /\ \A a \in Positions(m), b \in Positions(n) : a < b
              /\ LoopOver(stage) =>
                    UNION {Positions(n) : n \in Invoked(stage)} = 0..(N - 1)
        /\ (pc = "done" /\ result.status = "ok") =>
              \A j \in 1..N : result.value[j] = Expected(j)

C10_Witness ==
    /\ experts = "_ConvExpert"
    /\ Valid
    /\ pc = "done"
    /\ result.status = "ok"
    /\ Cardinality(Invoked("h4toh")) >= 2
    /\ \E e \in 1..NumExpert : fwd_expert_count[e] = 0 \/ fwd_expert_count[e] >= 2

Next ==
    \/ Construct
    \/ ComputeCall
    \/ Redistribute
    \/ ForwardCall
    \/ LinearStep
    \/ ExpandStep
    \/ ExpandCat
    \/ ContractStep
    \/ ContractCat
    \/ ForwardReturn
    \/ Finish

Spec == Init /\ [][Next]_vars

====
